---- MODULE Spec2Model ----
(***************************************************************************)
(* Model of xmatch.py: shallow_match and deep_match, the two structural    *)
(* matchers of algebraic expressions, with the parser (ast.parse) and the  *)
(* renderer (ast.unparse) they call.                                       *)
(*                                                                         *)
(* A text is a sequence of lexemes: one-letter names, one-digit numbers,   *)
(* the operator symbols, parentheses and the blank " ".  A tree node is a  *)
(* record whose field "type" is "BinOp", "Name" or "Constant".             *)
(***************************************************************************)
EXTENDS Integers, Sequences, FiniteSets, TLC

VARIABLES fun, power_as_atomic, expr1, expr2, t1, t2, stack, results, x, y,
          pc, ret, iters

vars == <<fun, power_as_atomic, expr1, expr2, t1, t2, stack, results, x, y,
          pc, ret, iters>>

(***************************************************************************)
(* Bounds of the checked input space.                                      *)
(***************************************************************************)
\* the largest number of binary operators in one input expression
MaxOps == 2

\* the leaves and the operators the input expressions are built from
LeafLexemes == {"a", "2"}
InputOps == {"Add", "Sub", "Pow"}

(***************************************************************************)
(* Lexemes.                                                                *)
(***************************************************************************)
NameLexemes == {"a", "b", "c", "x", "y"}

DigitValue == [d \in {"2", "3"} |-> IF d = "2" THEN 2 ELSE 3]

DigitLexemes == DOMAIN DigitValue

\* repr(value) of an int constant
Repr(v) == CHOOSE d \in DigitLexemes : DigitValue[d] = v

OpSymbol == [op \in {"Add", "Sub", "Mult", "Div", "Pow"} |->
               CASE op = "Add" -> "+" [] op = "Sub" -> "-" [] op = "Mult" -> "*"
                 [] op = "Div" -> "/" [] op = "Pow" -> "**"]

(***************************************************************************)
(* Tree nodes.                                                             *)
(***************************************************************************)
None == [type |-> "None"]

Name(id) == [type |-> "Name", id |-> id]

Constant(v) == [type |-> "Constant", value |-> v]

BinOp(l, op, r) == [type |-> "BinOp", left |-> l, op |-> op, right |-> r]

IsBinOp(t) == t.type = "BinOp"

IsConstant(t) == t.type = "Constant"

(***************************************************************************)
(* ast.unparse: the canonical rendering of a tree.  An operand is put in   *)
(* parentheses when its operator binds less tightly than its position      *)
(* requires; ** is right-associative, the other operators left-associative.*)
(***************************************************************************)
\* ast._Precedence: TEST = 0 < ARITH < TERM < FACTOR < POWER
Precedence(op) == CASE op \in {"Add", "Sub"} -> 1
                    [] op \in {"Mult", "Div"} -> 2
                    [] op = "Pow" -> 4

RECURSIVE Unparse(_, _)
Unparse(t, required) ==
  IF t.type = "Name" THEN <<t.id>>
  ELSE IF t.type = "Constant" THEN <<Repr(t.value)>>
  ELSE LET p == Precedence(t.op)
           lp == IF t.op = "Pow" THEN p + 1 ELSE p
           rp == IF t.op = "Pow" THEN p ELSE p + 1
           body == Unparse(t.left, lp) \o <<" ", OpSymbol[t.op], " ">>
                     \o Unparse(t.right, rp)
       IN IF p < required THEN <<"(">> \o body \o <<")">> ELSE body

Render(t) == Unparse(t, 0)

(***************************************************************************)
(* ast.parse(text, mode="eval").body for the grammar                       *)
(*   arith: term (("+"|"-") term)*     term: power (("*"|"/") power)*      *)
(*   power: atom ["**" power]          atom: NAME | NUMBER | "(" arith ")" *)
(* A parse yields [ok, node, pos]; pos is the next unread position.        *)
(***************************************************************************)
Failed == [ok |-> FALSE, node |-> None, pos |-> 0]

\* the tokenizer drops blanks between lexemes
Tokens(text) == SelectSeq(text, LAMBDA c : c # " ")

At(s, i) == IF i <= Len(s) THEN s[i] ELSE "<end>"

RECURSIVE ParseArith(_, _), ParseArithRest(_, _, _), ParseTerm(_, _),
          ParseTermRest(_, _, _), ParsePower(_, _), ParseAtom(_, _)

ParseAtom(s, i) ==
  LET c == At(s, i) IN
  IF c \in NameLexemes THEN [ok |-> TRUE, node |-> Name(c), pos |-> i + 1]
  ELSE IF c \in DigitLexemes
    THEN [ok |-> TRUE, node |-> Constant(DigitValue[c]), pos |-> i + 1]
  ELSE IF c = "("
    THEN LET e == ParseArith(s, i + 1) IN
         IF e.ok /\ At(s, e.pos) = ")"
           THEN [ok |-> TRUE, node |-> e.node, pos |-> e.pos + 1]
           ELSE Failed
  ELSE Failed

ParsePower(s, i) ==
  LET a == ParseAtom(s, i) IN
  IF ~a.ok THEN Failed
  ELSE IF At(s, a.pos) = "**"
    THEN LET e == ParsePower(s, a.pos + 1) IN
         IF e.ok THEN [ok |-> TRUE, node |-> BinOp(a.node, "Pow", e.node),
                       pos |-> e.pos]
         ELSE Failed
  ELSE a

ParseTermRest(s, left, i) ==
  LET c == At(s, i) IN
  IF c \in {"*", "/"}
    THEN LET r == ParsePower(s, i + 1) IN
         IF r.ok
           THEN ParseTermRest(s, BinOp(left, IF c = "*" THEN "Mult" ELSE "Div",
                                       r.node), r.pos)
           ELSE Failed
    ELSE [ok |-> TRUE, node |-> left, pos |-> i]

ParseTerm(s, i) ==
  LET a == ParsePower(s, i) IN
  IF a.ok THEN ParseTermRest(s, a.node, a.pos) ELSE Failed

ParseArithRest(s, left, i) ==
  LET c == At(s, i) IN
  IF c \in {"+", "-"}
    THEN LET r == ParseTerm(s, i + 1) IN
         IF r.ok
           THEN ParseArithRest(s, BinOp(left, IF c = "+" THEN "Add" ELSE "Sub",
                                        r.node), r.pos)
           ELSE Failed
    ELSE [ok |-> TRUE, node |-> left, pos |-> i]

ParseArith(s, i) ==
  LET a == ParseTerm(s, i) IN
  IF a.ok THEN ParseArithRest(s, a.node, a.pos) ELSE Failed

\* The tree of a text, or None when ast.parse raises SyntaxError.  A text
\* that starts with a blank is an IndentationError, a SyntaxError too.
Parse(text) ==
  IF text # <<>> /\ text[1] = " " THEN None
  ELSE LET s == Tokens(text)
           e == ParseArith(s, 1)
       IN IF e.ok /\ e.pos = Len(s) + 1 THEN e.node ELSE None

ParseFails(text) == Parse(text) = None

(***************************************************************************)
(* The input space: every expression of at most MaxOps operators over      *)
(* LeafLexemes and InputOps, written without blanks and with the fewest    *)
(* parentheses (as in "a**2+b"), and a few texts that are blank-padded,    *)
(* parenthesised or malformed.                                             *)
(***************************************************************************)
Leaf(l) == IF l \in NameLexemes THEN Name(l) ELSE Constant(DigitValue[l])

RECURSIVE TreesWithOps(_)
TreesWithOps(k) ==
  IF k = 0 THEN {Leaf(l) : l \in LeafLexemes}
  ELSE UNION {{BinOp(l, op, r) : l \in TreesWithOps(i),
                                 r \in TreesWithOps(k - 1 - i),
                                 op \in InputOps} : i \in 0..(k - 1)}

InputTrees == UNION {TreesWithOps(k) : k \in 0..MaxOps}

RECURSIVE Compact(_, _)
Compact(t, required) ==
  IF ~IsBinOp(t) THEN Render(t)
  ELSE LET p == Precedence(t.op)
           lp == IF t.op = "Pow" THEN p + 1 ELSE p
           rp == IF t.op = "Pow" THEN p ELSE p + 1
           body == Compact(t.left, lp) \o <<OpSymbol[t.op]>> \o Compact(t.right, rp)
       IN IF p < required THEN <<"(">> \o body \o <<")">> ELSE body

MalformedTexts == {<<>>, <<"a", "+">>, <<"(", "a">>, <<"a", " ", "2">>,
                   <<" ", "a">>, <<"a", "**">>}

PaddedTexts == {<<"(", "a", ")">>, <<"2", " ">>, <<"(", "a", "+", "2", ")">>}

Texts == {Compact(t, 0) : t \in InputTrees} \cup PaddedTexts \cup MalformedTexts

(***************************************************************************)
(* The body of the traversal loop for one popped pair (x, y): whether the  *)
(* call returns set() at once, the pairs pushed (the last one is the top   *)
(* of the stack) and the result set after the iteration.                   *)
(***************************************************************************)
\* variant: a failing mismatch skips the pair instead of returning
ReturnEmpty_Continue(res) == [fail |-> FALSE, push |-> <<>>, results |-> res]

ReturnEmpty(res) == [fail |-> TRUE, push |-> <<>>, results |-> res]

Add(res, a, b) == [fail |-> FALSE, push |-> <<>>, results |-> res \cup {<<a, b>>}]

Skip(res) == [fail |-> FALSE, push |-> <<>>, results |-> res]

\* variant: the (left, left) pair is pushed twice
Descend_PushesTwice(res, xn, yn) ==
  [fail |-> FALSE,
   push |-> <<<<xn.right, yn.right>>, <<xn.left, yn.left>>, <<xn.left, yn.left>>>>,
   results |-> res]

\* stack.extend([(x.right, y.right), (x.left, y.left)])
Descend(res, xn, yn) ==
  [fail |-> FALSE, push |-> <<<<xn.right, yn.right>>, <<xn.left, yn.left>>>>,
   results |-> res]

\* variant: any two leaves of the same text are skipped, not only constants
LeafCase_SkipsIdentical(xn, yn, res) ==
  IF ~IsBinOp(xn) /\ ~IsBinOp(yn) /\ Render(xn) = Render(yn) /\ res # {}
    THEN Skip(res)
    ELSE Add(res, Render(xn), Render(yn))

\* variant: equal constants are skipped also while the result set is empty
LeafCase_AlwaysSkipsEqual(xn, yn, res) ==
  IF IsConstant(xn) /\ IsConstant(yn) /\ xn.value = yn.value
    THEN Skip(res)
    ELSE Add(res, Render(xn), Render(yn))

\* variant: a BinOp against a leaf fails the match
LeafCase_DivergenceFails(xn, yn, res) ==
  IF IsBinOp(xn) # IsBinOp(yn) THEN ReturnEmpty(res)
  ELSE IF IsConstant(xn) /\ IsConstant(yn) /\ xn.value = yn.value /\ res # {}
    THEN Skip(res)
    ELSE Add(res, Render(xn), Render(yn))

LeafCase(xn, yn, res) ==
  IF IsConstant(xn) /\ IsConstant(yn) /\ xn.value = yn.value /\ res # {}
    THEN Skip(res)
    ELSE Add(res, Render(xn), Render(yn))

\* variant: differing operators fail the match also when one is Pow
ShallowBody_MismatchFails(xn, yn, paa, res) ==
  IF IsBinOp(xn) /\ IsBinOp(yn) THEN
    IF xn.op # yn.op THEN ReturnEmpty(res)
    ELSE IF xn.op = "Pow" THEN
      IF paa THEN Add(res, Render(xn), Render(yn)) ELSE Descend(res, xn, yn)
    ELSE Descend(res, xn, yn)
  ELSE LeafCase(xn, yn, res)

ShallowBody(xn, yn, paa, res) ==
  IF IsBinOp(xn) /\ IsBinOp(yn) THEN
    IF xn.op # yn.op THEN
      IF (xn.op # "Pow" /\ yn.op # "Pow") \/ ~paa
        THEN ReturnEmpty(res)
        ELSE Add(res, Render(xn), Render(yn))
    ELSE IF xn.op = "Pow" THEN
      IF paa THEN Add(res, Render(xn), Render(yn)) ELSE Descend(res, xn, yn)
    ELSE Descend(res, xn, yn)
  ELSE LeafCase(xn, yn, res)

DeepPower(xn, yn, res) ==
  LET x_base == Render(xn.left)
      x_pow == Render(xn.right)
      y_base == Render(yn.left)
      y_pow == Render(yn.right)
  IN IF yn.op # "Pow" THEN Add(res, Render(xn), Render(yn))
     ELSE IF x_base = y_base THEN
       IF x_pow # y_pow /\ <<x_pow, y_pow>> \notin res
         THEN Add(res, x_pow, y_pow)
         ELSE Skip(res)
     ELSE IF x_pow = y_pow /\ <<x_base, y_base>> \notin res
       THEN Add(res, x_base, y_base)
       ELSE Add(res, Render(xn), Render(yn))

\* variant: two powers are compared by base and exponent whatever
\* power_as_atomic is
DeepBody_AlwaysSplitsPowers(xn, yn, paa, res) ==
  IF IsBinOp(xn) /\ IsBinOp(yn) THEN
    IF xn.op # yn.op THEN
      IF (xn.op # "Pow" /\ yn.op # "Pow") \/ ~paa
        THEN ReturnEmpty(res)
        ELSE Add(res, Render(xn), Render(yn))
    ELSE IF xn.op = "Pow" THEN DeepPower(xn, yn, res)
    ELSE Descend(res, xn, yn)
  ELSE LeafCase(xn, yn, res)

DeepBody(xn, yn, paa, res) ==
  IF IsBinOp(xn) /\ IsBinOp(yn) THEN
    IF xn.op # yn.op THEN
      IF (xn.op # "Pow" /\ yn.op # "Pow") \/ ~paa
        THEN ReturnEmpty(res)
        ELSE Add(res, Render(xn), Render(yn))
    ELSE IF xn.op = "Pow" THEN
      IF paa THEN DeepPower(xn, yn, res) ELSE Descend(res, xn, yn)
    ELSE Descend(res, xn, yn)
  ELSE LeafCase(xn, yn, res)

Body(f, xn, yn, paa, res) ==
  IF f = "deep_match" THEN DeepBody(xn, yn, paa, res)
  ELSE ShallowBody(xn, yn, paa, res)

(***************************************************************************)
(* The checks made on the two roots before the loop.                       *)
(***************************************************************************)
RootNotBinOp(a, b) == ~IsBinOp(a) \/ ~IsBinOp(b)

RootAtomic(a, b, paa) ==
  /\ IsBinOp(a) /\ IsBinOp(b)
  /\ a.op # b.op
  /\ paa
  /\ (a.op = "Pow" \/ b.op = "Pow")

RootEmpty(a, b, paa) ==
  /\ IsBinOp(a) /\ IsBinOp(b)
  /\ a.op # b.op
  /\ ~paa

(***************************************************************************)
(* The whole call as a function of its arguments: the value returned when  *)
(* the loop pops the last pair of the stack at every iteration.            *)
(***************************************************************************)
RECURSIVE Loop(_, _, _, _)
Loop(f, paa, st, res) ==
  IF st = <<>> THEN res
  ELSE LET top == st[Len(st)]
           b == Body(f, top[1], top[2], paa, res)
       IN IF b.fail THEN {}
          ELSE Loop(f, paa, SubSeq(st, 1, Len(st) - 1) \o b.push, b.results)

Match(f, e1, e2, paa) ==
  IF ParseFails(e1) \/ ParseFails(e2) THEN {}
  ELSE LET a == Parse(e1)
           b == Parse(e2)
       IN IF RootNotBinOp(a, b) \/ RootAtomic(a, b, paa) THEN {<<e1, e2>>}
          ELSE IF RootEmpty(a, b, paa) THEN {}
          ELSE Loop(f, paa, <<<<a, b>>>>, {})

(***************************************************************************)
(* The state machine of one call fun(expr1, expr2, power_as_atomic).       *)
(***************************************************************************)
Init ==
  /\ fun \in {"shallow_match", "deep_match"}
  /\ power_as_atomic \in BOOLEAN
  /\ expr1 \in Texts
  /\ expr2 \in Texts
  /\ t1 = None /\ t2 = None
  /\ stack = <<>>
  /\ results = {}
  /\ x = None /\ y = None
  /\ pc = "parse"
  /\ ret = {}
  /\ iters = 0

\* variant: texts that do not parse are returned as one pair
ParseError_ReturnsPair ==
  /\ pc = "parse"
  /\ ParseFails(expr1) \/ ParseFails(expr2)
  /\ pc' = "done"
  /\ ret' = {<<expr1, expr2>>}
  /\ UNCHANGED <<fun, power_as_atomic, expr1, expr2, t1, t2, stack, results,
                 x, y, iters>>

\* try: ast.parse ... except SyntaxError: return set()
ParseError ==
  /\ pc = "parse"
  /\ ParseFails(expr1) \/ ParseFails(expr2)
  /\ pc' = "done"
  /\ ret' = {}
  /\ UNCHANGED <<fun, power_as_atomic, expr1, expr2, t1, t2, stack, results,
                 x, y, iters>>

ParseOk ==
  /\ pc = "parse"
  /\ ~ParseFails(expr1) /\ ~ParseFails(expr2)
  /\ t1' = Parse(expr1)
  /\ t2' = Parse(expr2)
  /\ pc' = "root"
  /\ UNCHANGED <<fun, power_as_atomic, expr1, expr2, stack, results, x, y, ret,
                 iters>>

\* variant: the pair returned before the loop is rendered from the trees
ReturnInputs_Rendered ==
  /\ pc = "root"
  /\ RootNotBinOp(t1, t2) \/ RootAtomic(t1, t2, power_as_atomic)
  /\ pc' = "done"
  /\ ret' = {<<Render(t1), Render(t2)>>}
  /\ UNCHANGED <<fun, power_as_atomic, expr1, expr2, t1, t2, stack, results,
                 x, y, iters>>

\* return {(expr1, expr2)}: a root is no BinOp, or the root operators differ,
\* power_as_atomic is set and one of them is Pow
ReturnInputs ==
  /\ pc = "root"
  /\ RootNotBinOp(t1, t2) \/ RootAtomic(t1, t2, power_as_atomic)
  /\ pc' = "done"
  /\ ret' = {<<expr1, expr2>>}
  /\ UNCHANGED <<fun, power_as_atomic, expr1, expr2, t1, t2, stack, results,
                 x, y, iters>>

\* return set(): the root operators differ and power_as_atomic is not set
ReturnRootMismatch ==
  /\ pc = "root"
  /\ RootEmpty(t1, t2, power_as_atomic)
  /\ pc' = "done"
  /\ ret' = {}
  /\ UNCHANGED <<fun, power_as_atomic, expr1, expr2, t1, t2, stack, results,
                 x, y, iters>>

\* stack = [(t1, t2)]; results = set()
EnterLoop ==
  /\ pc = "root"
  /\ ~RootNotBinOp(t1, t2)
  /\ ~RootAtomic(t1, t2, power_as_atomic)
  /\ ~RootEmpty(t1, t2, power_as_atomic)
  /\ stack' = <<<<t1, t2>>>>
  /\ results' = {}
  /\ pc' = "loop"
  /\ UNCHANGED <<fun, power_as_atomic, expr1, expr2, t1, t2, x, y, ret, iters>>

Remove(s, i) == SubSeq(s, 1, i - 1) \o SubSeq(s, i + 1, Len(s))

\* One iteration of the loop on the pair at position i of the stack;
\* stack.pop() takes the last position.
Iterate(i) ==
  /\ pc = "loop"
  /\ i \in 1..Len(stack)
  /\ LET b == Body(fun, stack[i][1], stack[i][2], power_as_atomic, results) IN
       /\ x' = stack[i][1]
       /\ y' = stack[i][2]
       /\ iters' = iters + 1
       /\ IF b.fail
            THEN /\ pc' = "done"
                 /\ ret' = {}
                 /\ stack' = Remove(stack, i)
                 /\ UNCHANGED results
            ELSE /\ stack' = Remove(stack, i) \o b.push
                 /\ results' = b.results
                 /\ UNCHANGED <<pc, ret>>
  /\ UNCHANGED <<fun, power_as_atomic, expr1, expr2, t1, t2>>

LoopIteration == Iterate(Len(stack))

\* the stack is empty: return results
ReturnResults ==
  /\ pc = "loop"
  /\ stack = <<>>
  /\ pc' = "done"
  /\ ret' = results
  /\ UNCHANGED <<fun, power_as_atomic, expr1, expr2, t1, t2, stack, results,
                 x, y, iters>>

Next ==
  \/ ParseError
  \/ ParseOk
  \/ ReturnInputs
  \/ ReturnRootMismatch
  \/ EnterLoop
  \/ LoopIteration
  \/ ReturnResults

Spec == Init /\ [][Next]_vars

\* The same call when the loop may take any pending pair of the work list,
\* not only the last one.
IterateAny == \E i \in 1..Len(stack) : Iterate(i)

NextAnyOrder ==
  \/ ParseError
  \/ ParseOk
  \/ ReturnInputs
  \/ ReturnRootMismatch
  \/ EnterLoop
  \/ IterateAny
  \/ ReturnResults

SpecAnyOrder == Init /\ [][NextAnyOrder]_vars

(***************************************************************************)
(* Vocabulary of the properties.                                           *)
(***************************************************************************)
Parses(text) == Parse(text) # None

OpsDiffer(a, b) == IsBinOp(a) /\ IsBinOp(b) /\ a.op # b.op

HasPow(a, b) == a.op = "Pow" \/ b.op = "Pow"

\* differing operators that fail the whole match
FailingMismatch(a, b) == OpsDiffer(a, b) /\ ~(power_as_atomic /\ HasPow(a, b))

\* differing operators that are kept as one atomic pair
AtomicMismatch(a, b) == OpsDiffer(a, b) /\ power_as_atomic /\ HasPow(a, b)

OneSideBinOp(a, b) == a # None /\ b # None /\ IsBinOp(a) # IsBinOp(b)

BothPow(a, b) == IsBinOp(a) /\ IsBinOp(b) /\ a.op = "Pow" /\ b.op = "Pow"

RenderedPair(a, b) == <<Render(a), Render(b)>>

\* the pair (a, b) is descended into: (left, left) and (right, right) follow
Descends(a, b) ==
  /\ IsBinOp(a) /\ IsBinOp(b)
  /\ a.op = b.op
  /\ a.op = "Pow" => ~power_as_atomic

\* the pairs at matching positions that a traversal which does not fail visits
RECURSIVE VisitedPairs(_, _)
VisitedPairs(a, b) ==
  {<<a, b>>} \cup
    (IF Descends(a, b)
       THEN VisitedPairs(a.left, b.left) \cup VisitedPairs(a.right, b.right)
       ELSE {})

\* all pairs of nodes at matching positions of the two trees
RECURSIVE CommonPairs(_, _)
CommonPairs(a, b) ==
  1 + (IF IsBinOp(a) /\ IsBinOp(b)
         THEN CommonPairs(a.left, b.left) + CommonPairs(a.right, b.right)
         ELSE 0)

RECURSIVE PendingPairs(_)
PendingPairs(st) ==
  IF st = <<>> THEN 0
  ELSE CommonPairs(st[1][1], st[1][2]) + PendingPairs(Tail(st))

EqualConstants(a, b) == IsConstant(a) /\ IsConstant(b) /\ a.value = b.value

\* two powers with the same exponent and different bases
SameExponentOnly(a, b) ==
  /\ BothPow(a, b)
  /\ Render(a.left) # Render(b.left)
  /\ Render(a.right) = Render(b.right)

IdenticalPowers(a, b) ==
  /\ BothPow(a, b)
  /\ Render(a.left) = Render(b.left)
  /\ Render(a.right) = Render(b.right)

DeepAtomic == fun = "deep_match" /\ power_as_atomic

\* the loop was entered and the last pair it visited did not fail the match
RanToEnd == pc = "done" /\ iters > 0 /\ ~FailingMismatch(x, y)

OtherFun == IF fun = "deep_match" THEN "shallow_match" ELSE "deep_match"

(***************************************************************************)
(* C1.  When expr1 or expr2 does not parse, the call returns the empty set *)
(* and does nothing else: no tree is kept, the roots are not inspected and *)
(* the loop is not entered, also when the other text parses to a leaf.     *)
(***************************************************************************)
C1_ParseFailureReturnsEmpty ==
  (~Parses(expr1) \/ ~Parses(expr2)) =>
     /\ pc \in {"parse", "done"}
     /\ t1 = None /\ t2 = None
     /\ results = {} /\ iters = 0
     /\ pc = "done" => ret = {}

C1_Witness ==
  /\ pc = "done"
  /\ ~Parses(expr1)
  /\ Parses(expr2) /\ ~IsBinOp(Parse(expr2))
  /\ ret = {}

(***************************************************************************)
(* C2.  When both texts parse and a root is no BinOp, or the root          *)
(* operators differ with power_as_atomic set and one of them Pow, the call *)
(* returns exactly {(expr1, expr2)}, the raw texts, and the loop is never  *)
(* entered.                                                                *)
(***************************************************************************)
C2_Case ==
  /\ Parses(expr1) /\ Parses(expr2)
  /\ LET a == Parse(expr1)
         b == Parse(expr2)
     IN ~IsBinOp(a) \/ ~IsBinOp(b) \/ AtomicMismatch(a, b)

C2_ReturnsRawInputs ==
  C2_Case =>
     /\ pc \in {"parse", "root", "done"}
     /\ iters = 0 /\ stack = <<>> /\ x = None /\ y = None
     /\ pc = "done" => ret = {<<expr1, expr2>>}

C2_Witness ==
  /\ pc = "done"
  /\ C2_Case
  /\ ~IsBinOp(t1) /\ IsBinOp(t2)
  /\ expr1 # Render(t1) /\ expr2 # Render(t2)
  /\ ret = {<<expr1, expr2>>}

(***************************************************************************)
(* C3.  A pair of BinOp nodes with differing operators, unless             *)
(* power_as_atomic is set and one operator is Pow, makes the call return   *)
(* the empty set: at the roots, and at any visited pair whatever was       *)
(* accumulated before.                                                     *)
(***************************************************************************)
C3_MismatchReturnsEmpty ==
  /\ FailingMismatch(x, y) => (pc = "done" /\ ret = {})
  /\ FailingMismatch(t1, t2) =>
       /\ pc = "loop" => (stack = <<<<t1, t2>>>> /\ results = {})
       /\ pc = "done" => ret = {}

C3_Witness ==
  /\ pc = "done"
  /\ FailingMismatch(x, y)
  /\ results # {}
  /\ ret = {}

(***************************************************************************)
(* C4.  The returned set is the same whatever pending pair each iteration  *)
(* takes from the work list: it is the set returned when the last pair is  *)
(* taken every time.                                                       *)
(***************************************************************************)
C4_OrderIndependent ==
  pc = "done" => ret = Match(fun, expr1, expr2, power_as_atomic)

\* C4 as amended: the order does not matter when no visited pair is a pair of
\* equal constants and, for deep_match with power_as_atomic, no visited pair
\* is a pair of powers with the same exponent and different bases.
C4_OrderInsensitiveInputs ==
  /\ IsBinOp(t1) /\ IsBinOp(t2)
  /\ \A p \in VisitedPairs(t1, t2) :
       /\ ~EqualConstants(p[1], p[2])
       /\ DeepAtomic => ~SameExponentOnly(p[1], p[2])

C4_OrderIndependentAmended ==
  (pc = "done" /\ C4_OrderInsensitiveInputs) =>
     ret = Match(fun, expr1, expr2, power_as_atomic)

\* the (right, right) pair of the roots was visited before the (left, left) one
C4_Witness ==
  /\ pc = "done"
  /\ C4_OrderInsensitiveInputs
  /\ x = t1.left /\ y = t2.left
  /\ t1.left # t1.right /\ t2.left # t2.right
  /\ Cardinality(ret) = 2
  /\ ret = Match(fun, expr1, expr2, power_as_atomic)

(***************************************************************************)
(* C5.  When both roots are BinOp and the traversal empties the work list  *)
(* without a failing mismatch, the returned set is not empty.              *)
(***************************************************************************)
C5_NonEmptyResult == RanToEnd => ret # {}

\* C5 as amended: the returned set is empty in one case only, deep_match
\* with power_as_atomic when every pair at which the traversal stops is a
\* pair of powers with identical bases and identical exponents.
C5_OnlyIdenticalPowers ==
  /\ DeepAtomic
  /\ \A p \in VisitedPairs(t1, t2) :
       Descends(p[1], p[2]) \/ IdenticalPowers(p[1], p[2])

C5_NonEmptyResultAmended == RanToEnd => (ret = {} <=> C5_OnlyIdenticalPowers)

\* an expression of equal constants only, matched against itself
C5_Witness ==
  /\ RanToEnd
  /\ t1 = t2
  /\ iters = 3
  /\ EqualConstants(x, y)
  /\ Cardinality(ret) = 1

(***************************************************************************)
(* C6.  The loop ends: the iterations made plus the node pairs at matching *)
(* positions under the pending pairs never exceed the number of node pairs *)
(* at matching positions of the two trees, and every pair of the work list *)
(* is a pair of nodes.                                                     *)
(***************************************************************************)
C6_IterationsBounded ==
  /\ iters + PendingPairs(stack) <= CommonPairs(t1, t2)
  /\ \A i \in 1..Len(stack) : stack[i][1] # None /\ stack[i][2] # None

C6_Witness ==
  /\ pc = "done"
  /\ iters = CommonPairs(t1, t2)
  /\ iters = 5

(***************************************************************************)
(* C7.  In deep_match with power_as_atomic, a visited pair of powers with  *)
(* the same exponent and different bases contributes the pair of bases or  *)
(* nothing, never the pair of the whole powers.                            *)
(***************************************************************************)
C7_SameExponentGivesBases ==
  (DeepAtomic /\ SameExponentOnly(x, y)) => RenderedPair(x, y) \notin results

(***************************************************************************)
(* C8.  With power_as_atomic, visiting a pair of BinOp nodes whose         *)
(* operators differ, one of them Pow, adds the rendered pair, pushes       *)
(* nothing and lets the traversal go on.                                   *)
(***************************************************************************)
C8_Step ==
  (/\ pc = "loop" /\ stack # <<>>
   /\ AtomicMismatch(stack[Len(stack)][1], stack[Len(stack)][2]))
  => /\ results' = results \cup {RenderedPair(stack[Len(stack)][1],
                                              stack[Len(stack)][2])}
     /\ stack' = SubSeq(stack, 1, Len(stack) - 1)
     /\ pc' = "loop"

C8_AtomicMismatchEmits == [][C8_Step]_vars

C8_Witness ==
  /\ pc = "loop"
  /\ AtomicMismatch(x, y)
  /\ stack # <<>>
  /\ results = {RenderedPair(x, y)}

(***************************************************************************)
(* C9.  With power_as_atomic false deep_match and shallow_match return the *)
(* same set; they differ only when power_as_atomic is set and a pair of    *)
(* two powers is visited.                                                  *)
(***************************************************************************)
C9_PowPairVisited ==
  /\ IsBinOp(t1) /\ IsBinOp(t2)
  /\ \E p \in VisitedPairs(t1, t2) : BothPow(p[1], p[2])

C9_DeepEqualsShallow ==
  (pc = "done" /\ (~power_as_atomic \/ ~C9_PowPairVisited)) =>
     ret = Match(OtherFun, expr1, expr2, power_as_atomic)

C9_Witness ==
  /\ pc = "done"
  /\ ~power_as_atomic
  /\ fun = "deep_match"
  /\ BothPow(t1, t2)
  /\ Cardinality(ret) = 2
  /\ ret = Match("shallow_match", expr1, expr2, FALSE)

(***************************************************************************)
(* C10.  Visiting a pair with a BinOp on one side and a leaf on the other  *)
(* adds the rendered pair (the BinOp rendered whole), pushes nothing and   *)
(* does not fail.                                                          *)
(***************************************************************************)
C10_Step ==
  (/\ pc = "loop" /\ stack # <<>>
   /\ OneSideBinOp(stack[Len(stack)][1], stack[Len(stack)][2]))
  => /\ results' = results \cup {RenderedPair(stack[Len(stack)][1],
                                              stack[Len(stack)][2])}
     /\ stack' = SubSeq(stack, 1, Len(stack) - 1)
     /\ pc' = "loop"

C10_ShapeDivergenceEmits == [][C10_Step]_vars

C10_Witness ==
  /\ pc = "done"
  /\ OneSideBinOp(x, y)
  /\ RenderedPair(x, y) \in ret
  /\ Cardinality(ret) = 2

====
